---- MODULE Spec2Model ----
(***************************************************************************)
(* Model of the media attachment resolver of configs.go: the file          *)
(* references (RequestFileData), the InputMedia items, the two passes      *)
(* prepareInputMediaParam / prepareInputMediaFile and the two descriptors  *)
(* that use them, MediaGroupConfig and EditMessageMediaConfig.             *)
(*                                                                         *)
(* Specifications:                                                         *)
(*   Spec       a caller builds one of the two media descriptors and calls *)
(*              Params() and files() on it;                                *)
(*   SpecFiles  the three methods of RequestFileData called on a file      *)
(*              reference, over a file system in which a path can or       *)
(*              cannot be opened.                                          *)
(*   SpecParams a caller holds one request descriptor and calls Params()   *)
(*              on it.                                                     *)
(*   SpecCallers several callers build the parameters and the files of     *)
(*              their own media groups, one loop iteration at a time.      *)
(*   SpecPlan   a caller holds one descriptor with files, asks it for its  *)
(*              media parameter and its files, a sender then reads the     *)
(*              files, and the rewritten media may be submitted again.     *)
(* Each specification moves its own variables and leaves the others idle.  *)
(*                                                                         *)
(* A Go value of interface type is a record with a "type" field naming its *)
(* dynamic type; a typed string (FilePath, FileURL, FileID, fileAttach) or *)
(* a named upload (FileBytes, FileReader) carries its string in "data".    *)
(* Go slice indices start at 0, TLA+ sequences at 1: the element at        *)
(* position i of a sequence has idx = i - 1.                               *)
(***************************************************************************)
EXTENDS Integers, Sequences, FiniteSets, TLC

\* Longest media sequence a caller builds.
MaxLen == 2

VARIABLES
    kind,       \* which descriptor the caller holds: "group" or "edit"
    Media,      \* its Media field: a sequence of items (group), one item (edit)
    paramsOut,  \* the latest values Params() put under "media", oldest first
    filesOut    \* the latest lists files() returned, oldest first

mediaVars == <<kind, Media, paramsOut, filesOut>>

VARIABLES
    file,       \* the file reference a method of RequestFileData is called on
    fsys,       \* the paths os.Open can open
    accessed    \* the method called last on file and what came of it

fileVars == <<file, fsys, accessed>>

VARIABLES
    config,     \* the request descriptor (a Chattable) the caller holds
    built       \* what Params() returned for it: the Params and the error

paramVars == <<config, built>>

VARIABLES
    request,    \* per caller: config.Media of the MediaGroupConfig it holds
    pc,         \* per caller: the function its call is in, or "idle"
    idxOf,      \* per caller: the loop index idx of the running call
    newMediaOf, \* per caller: the local newMedia of prepareInputMediaForParams
    filesOf,    \* per caller: the local files of prepareInputMediaForFiles
    resultOf    \* per caller: what its calls have returned

callerVars == <<request, pc, idxOf, newMediaOf, filesOf, resultOf>>

VARIABLES
    fileable,   \* the descriptor with files (a Fileable) the caller holds
    planned,    \* what its Params() put under "media" and what files() returned
    invoked,    \* the methods called on file references so far, and by whom
    opened,     \* the paths os.Open has been called on
    fedBack     \* whether Media of the descriptor is an earlier rewritten media

planVars == <<fileable, planned, invoked, opened, fedBack>>

vars == <<mediaVars, fileVars, paramVars, callerVars, planVars>>

\* The variables each specification leaves alone.
otherThanMedia == <<fileVars, paramVars, callerVars, planVars>>
otherThanFiles == <<mediaVars, paramVars, callerVars, planVars>>
otherThanParams == <<mediaVars, fileVars, callerVars, planVars>>
otherThanCallers == <<mediaVars, fileVars, paramVars, planVars>>
otherThanPlan == <<mediaVars, fileVars, paramVars, callerVars>>

-----------------------------------------------------------------------------
(* RequestFileData and its implementations *)

\* The nil interface value / nil pointer.
Nil == [type |-> "nil"]

FileBytes(name) == [type |-> "FileBytes", data |-> name]
FileReader(name) == [type |-> "FileReader", data |-> name]
FilePath(path) == [type |-> "FilePath", data |-> path]
FileURL(url) == [type |-> "FileURL", data |-> url]
FileID(id) == [type |-> "FileID", data |-> id]
fileAttach(s) == [type |-> "fileAttach", data |-> s]

\* NeedsUpload that asks for an upload of a fileAttach as well.
NeedsUpload_AttachToo(f) ==
    CASE f.type = "FileBytes" -> TRUE
      [] f.type = "FileReader" -> TRUE
      [] f.type = "FilePath" -> TRUE
      [] f.type = "FileURL" -> FALSE
      [] f.type = "FileID" -> FALSE
      [] f.type = "fileAttach" -> TRUE

NeedsUpload(f) ==
    CASE f.type = "FileBytes" -> TRUE
      [] f.type = "FileReader" -> TRUE
      [] f.type = "FilePath" -> TRUE
      [] f.type = "FileURL" -> FALSE
      [] f.type = "FileID" -> FALSE
      [] f.type = "fileAttach" -> FALSE

\* SendData that hands out a FilePath's string instead of panicking.
SendData_PathAsString(f) ==
    CASE f.type = "FileURL" -> [panic |-> FALSE, value |-> f.data]
      [] f.type = "FileID" -> [panic |-> FALSE, value |-> f.data]
      [] f.type = "fileAttach" -> [panic |-> FALSE, value |-> f.data]
      [] f.type = "FileBytes" -> [panic |-> TRUE, value |-> "FileBytes must be uploaded"]
      [] f.type = "FileReader" -> [panic |-> TRUE, value |-> "FileReader must be uploaded"]
      [] f.type = "FilePath" -> [panic |-> FALSE, value |-> f.data]

\* SendData returns the string itself for the three kinds that are sent as
\* text and panics for the three that must be uploaded.
SendData(f) ==
    CASE f.type = "FileURL" -> [panic |-> FALSE, value |-> f.data]
      [] f.type = "FileID" -> [panic |-> FALSE, value |-> f.data]
      [] f.type = "fileAttach" -> [panic |-> FALSE, value |-> f.data]
      [] f.type = "FileBytes" -> [panic |-> TRUE, value |-> "FileBytes must be uploaded"]
      [] f.type = "FileReader" -> [panic |-> TRUE, value |-> "FileReader must be uploaded"]
      [] f.type = "FilePath" -> [panic |-> TRUE, value |-> "FilePath must be uploaded"]

\* What a call returns: the three results of UploadData, or a panic.
Returned(name, reader, err) ==
    [panic |-> FALSE, name |-> name, reader |-> reader, err |-> err]
Panic(message) == [panic |-> TRUE, value |-> message]

\* os.Open(path): the handle and a nil error, or nil and an error.
osOpen(path, openable) ==
    IF path \in openable
    THEN [handle |-> [type |-> "os.File", name |-> path], err |-> Nil]
    ELSE [handle |-> Nil, err |-> [type |-> "PathError", path |-> path]]

\* UploadData that opens the path and panics when that fails.
UploadData_MustOpen(f, openable) ==
    CASE f.type = "FileBytes" -> Returned(f.data, [type |-> "bytes.Reader"], Nil)
      [] f.type = "FileReader" -> Returned(f.data, [type |-> "io.Reader"], Nil)
      [] f.type = "FilePath" ->
           IF osOpen(f.data, openable).err # Nil
           THEN Panic("open failed")
           ELSE Returned(osOpen(f.data, openable).handle.name,
                         osOpen(f.data, openable).handle, Nil)
      [] f.type = "FileURL" -> Panic("FileURL cannot be uploaded")
      [] f.type = "FileID" -> Panic("FileID cannot be uploaded")
      [] f.type = "fileAttach" -> Panic("fileAttach cannot be uploaded")

\* UploadData returns the file name, a reader and an error. A FilePath is
\* opened here: when os.Open fails the result is "", nil and the error.
UploadData(f, openable) ==
    CASE f.type = "FileBytes" -> Returned(f.data, [type |-> "bytes.Reader"], Nil)
      [] f.type = "FileReader" -> Returned(f.data, [type |-> "io.Reader"], Nil)
      [] f.type = "FilePath" ->
           IF osOpen(f.data, openable).err # Nil
           THEN Returned("", Nil, osOpen(f.data, openable).err)
           ELSE Returned(osOpen(f.data, openable).handle.name,
                         osOpen(f.data, openable).handle,
                         osOpen(f.data, openable).err)
      [] f.type = "FileURL" -> Panic("FileURL cannot be uploaded")
      [] f.type = "FileID" -> Panic("FileID cannot be uploaded")
      [] f.type = "fileAttach" -> Panic("fileAttach cannot be uploaded")

RequestFile(name, data) == [Name |-> name, Data |-> data]

-----------------------------------------------------------------------------
(* fmt.Sprintf with the three formats the resolver uses *)

SprintfAttachFile(idx) == "attach://file-" \o ToString(idx)
SprintfAttachThumb(idx) == "attach://file-" \o ToString(idx) \o "-thumb"
SprintfFile(idx) == "file-" \o ToString(idx)

-----------------------------------------------------------------------------
(* The values a caller can put into a Media field *)

\* File references a caller puts into a Media field: one to upload and two
\* already hosted (fileAttach is unexported: a caller cannot construct it).
\* Media is never nil here: NeedsUpload on a nil Media is a nil dereference.
CallerMedia ==
    { FilePath("/tmp/video.mp4"), FileURL("https://example.org/a"), FileID("AgADBAAD") }

\* File references a caller puts into a Thumb field, besides nil.
CallerThumbs ==
    { FileBytes("thumb.jpg"), FileID("AAQCthumb") }

ThumbTypes == {"InputMediaVideo", "InputMediaAudio", "InputMediaDocument"}
MediaTypes == {"InputMediaPhoto"} \cup ThumbTypes

\* The caption a caller gives an item: the metadata the resolver passes on.
CallerCaption == "a caption"

\* InputMediaPhoto has no Thumb field; in the other three Thumb may be nil.
InputMediaPhoto(media) ==
    [type |-> "InputMediaPhoto", Media |-> media, Caption |-> CallerCaption]
InputMediaThumb(t, media, thumb) ==
    [type |-> t, Media |-> media, Thumb |-> thumb, Caption |-> CallerCaption]

\* An element of []interface{} that is none of the four InputMedia types.
OtherValue == [type |-> "string"]

CallerItems ==
    { InputMediaPhoto(m) : m \in CallerMedia }
    \cup { InputMediaThumb(t, m, th) :
             t \in ThumbTypes, m \in CallerMedia, th \in CallerThumbs \cup {Nil} }
    \cup { OtherValue }

-----------------------------------------------------------------------------
(* The resolver *)

\* prepareInputMediaParam that forgets to ask NeedsUpload for the media.
prepareInputMediaParam_AlwaysAttach(inputMedia, idx) ==
    CASE inputMedia.type = "InputMediaPhoto" ->
           [inputMedia EXCEPT !.Media = fileAttach(SprintfAttachFile(idx))]
      [] inputMedia.type \in ThumbTypes ->
           [inputMedia EXCEPT
              !.Media = fileAttach(SprintfAttachFile(idx)),
              !.Thumb = IF @ # Nil /\ NeedsUpload(@)
                        THEN fileAttach(SprintfAttachThumb(idx)) ELSE @]
      [] OTHER -> Nil

\* prepareInputMediaParam that builds its result anew from the type and the
\* file references, leaving the other fields at their zero value.
prepareInputMediaParam_FreshItem(inputMedia, idx) ==
    CASE inputMedia.type = "InputMediaPhoto" ->
           [type |-> inputMedia.type, Caption |-> "",
            Media |-> IF NeedsUpload(inputMedia.Media)
                      THEN fileAttach(SprintfAttachFile(idx)) ELSE inputMedia.Media]
      [] inputMedia.type \in ThumbTypes ->
           [type |-> inputMedia.type, Caption |-> "",
            Media |-> IF NeedsUpload(inputMedia.Media)
                      THEN fileAttach(SprintfAttachFile(idx)) ELSE inputMedia.Media,
            Thumb |-> IF inputMedia.Thumb # Nil /\ NeedsUpload(inputMedia.Thumb)
                      THEN fileAttach(SprintfAttachThumb(idx)) ELSE inputMedia.Thumb]
      [] OTHER -> Nil

\* The item is passed by value: the result is a copy, with Media and Thumb
\* replaced where they need upload. No case of the switch matching, the result
\* is nil.
prepareInputMediaParam(inputMedia, idx) ==
    CASE inputMedia.type = "InputMediaPhoto" ->
           [inputMedia EXCEPT
              !.Media = IF NeedsUpload(@) THEN fileAttach(SprintfAttachFile(idx)) ELSE @]
      [] inputMedia.type = "InputMediaVideo" ->
           [inputMedia EXCEPT
              !.Media = IF NeedsUpload(@) THEN fileAttach(SprintfAttachFile(idx)) ELSE @,
              !.Thumb = IF @ # Nil /\ NeedsUpload(@)
                        THEN fileAttach(SprintfAttachThumb(idx)) ELSE @]
      [] inputMedia.type = "InputMediaAudio" ->
           [inputMedia EXCEPT
              !.Media = IF NeedsUpload(@) THEN fileAttach(SprintfAttachFile(idx)) ELSE @,
              !.Thumb = IF @ # Nil /\ NeedsUpload(@)
                        THEN fileAttach(SprintfAttachThumb(idx)) ELSE @]
      [] inputMedia.type = "InputMediaDocument" ->
           [inputMedia EXCEPT
              !.Media = IF NeedsUpload(@) THEN fileAttach(SprintfAttachFile(idx)) ELSE @,
              !.Thumb = IF @ # Nil /\ NeedsUpload(@)
                        THEN fileAttach(SprintfAttachThumb(idx)) ELSE @]
      [] OTHER -> Nil

\* prepareInputMediaFile that numbers the media part from 1.
prepareInputMediaFile_OneBased(inputMedia, idx) ==
    CASE inputMedia.type = "InputMediaPhoto" ->
           IF NeedsUpload(inputMedia.Media)
           THEN <<RequestFile(SprintfFile(idx + 1), inputMedia.Media)>> ELSE <<>>
      [] inputMedia.type \in ThumbTypes ->
           (IF NeedsUpload(inputMedia.Media)
            THEN <<RequestFile(SprintfFile(idx + 1), inputMedia.Media)>> ELSE <<>>)
           \o
           (IF inputMedia.Thumb # Nil /\ NeedsUpload(inputMedia.Thumb)
            THEN <<RequestFile(SprintfFile(idx), inputMedia.Thumb)>> ELSE <<>>)
      [] OTHER -> <<>>

\* prepareInputMediaFile that forgets to ask NeedsUpload for a photo.
prepareInputMediaFile_PhotoUnchecked(inputMedia, idx) ==
    CASE inputMedia.type = "InputMediaPhoto" ->
           <<RequestFile(SprintfFile(idx), inputMedia.Media)>>
      [] inputMedia.type \in ThumbTypes ->
           (IF NeedsUpload(inputMedia.Media)
            THEN <<RequestFile(SprintfFile(idx), inputMedia.Media)>> ELSE <<>>)
           \o
           (IF inputMedia.Thumb # Nil /\ NeedsUpload(inputMedia.Thumb)
            THEN <<RequestFile(SprintfFile(idx), inputMedia.Thumb)>> ELSE <<>>)
      [] OTHER -> <<>>

\* prepareInputMediaFile that leaves the thumbnails out.
prepareInputMediaFile_NoThumb(inputMedia, idx) ==
    CASE inputMedia.type \in MediaTypes ->
           IF NeedsUpload(inputMedia.Media)
           THEN <<RequestFile(SprintfFile(idx), inputMedia.Media)>> ELSE <<>>
      [] OTHER -> <<>>

\* prepareInputMediaFile that appends the thumbnail before the media.
prepareInputMediaFile_ThumbFirst(inputMedia, idx) ==
    CASE inputMedia.type = "InputMediaPhoto" ->
           IF NeedsUpload(inputMedia.Media)
           THEN <<RequestFile(SprintfFile(idx), inputMedia.Media)>> ELSE <<>>
      [] inputMedia.type \in ThumbTypes ->
           (IF inputMedia.Thumb # Nil /\ NeedsUpload(inputMedia.Thumb)
            THEN <<RequestFile(SprintfFile(idx), inputMedia.Thumb)>> ELSE <<>>)
           \o
           (IF NeedsUpload(inputMedia.Media)
            THEN <<RequestFile(SprintfFile(idx), inputMedia.Media)>> ELSE <<>>)
      [] OTHER -> <<>>

\* prepareInputMediaFile that forgets to ask NeedsUpload for a thumbnail.
prepareInputMediaFile_ThumbUnchecked(inputMedia, idx) ==
    CASE inputMedia.type = "InputMediaPhoto" ->
           IF NeedsUpload(inputMedia.Media)
           THEN <<RequestFile(SprintfFile(idx), inputMedia.Media)>> ELSE <<>>
      [] inputMedia.type \in ThumbTypes ->
           (IF NeedsUpload(inputMedia.Media)
            THEN <<RequestFile(SprintfFile(idx), inputMedia.Media)>> ELSE <<>>)
           \o
           (IF inputMedia.Thumb # Nil
            THEN <<RequestFile(SprintfFile(idx), inputMedia.Thumb)>> ELSE <<>>)
      [] OTHER -> <<>>

\* The thumbnail's part is named with the format of the media's part,
\* "file-%d", in all three cases that have a thumbnail.
prepareInputMediaFile(inputMedia, idx) ==
    CASE inputMedia.type = "InputMediaPhoto" ->
           IF NeedsUpload(inputMedia.Media)
           THEN <<RequestFile(SprintfFile(idx), inputMedia.Media)>> ELSE <<>>
      [] inputMedia.type = "InputMediaVideo" ->
           (IF NeedsUpload(inputMedia.Media)
            THEN <<RequestFile(SprintfFile(idx), inputMedia.Media)>> ELSE <<>>)
           \o
           (IF inputMedia.Thumb # Nil /\ NeedsUpload(inputMedia.Thumb)
            THEN <<RequestFile(SprintfFile(idx), inputMedia.Thumb)>> ELSE <<>>)
      [] inputMedia.type = "InputMediaDocument" ->
           (IF NeedsUpload(inputMedia.Media)
            THEN <<RequestFile(SprintfFile(idx), inputMedia.Media)>> ELSE <<>>)
           \o
           (IF inputMedia.Thumb # Nil /\ NeedsUpload(inputMedia.Thumb)
            THEN <<RequestFile(SprintfFile(idx), inputMedia.Thumb)>> ELSE <<>>)
      [] inputMedia.type = "InputMediaAudio" ->
           (IF NeedsUpload(inputMedia.Media)
            THEN <<RequestFile(SprintfFile(idx), inputMedia.Media)>> ELSE <<>>)
           \o
           (IF inputMedia.Thumb # Nil /\ NeedsUpload(inputMedia.Thumb)
            THEN <<RequestFile(SprintfFile(idx), inputMedia.Thumb)>> ELSE <<>>)
      [] OTHER -> <<>>

\* prepareInputMediaForParams that stores param without looking for nil.
prepareInputMediaForParams_NoNilCheck(inputMedia) ==
    [i \in 1..Len(inputMedia) |-> prepareInputMediaParam(inputMedia[i], i - 1)]

prepareInputMediaForParams(inputMedia) ==
    [i \in 1..Len(inputMedia) |->
       LET param == prepareInputMediaParam(inputMedia[i], i - 1)
       IN  IF param # Nil THEN param ELSE inputMedia[i]]

\* The caller's value after prepareInputMediaParam: the type switch binds m to
\* a copy of the item, so the assignments to m.Media and m.Thumb stay in it.
callerItemAfterParam(inputMedia, idx) == inputMedia

\* prepareInputMediaForParams writing its results into the slice it was given.
callerMediaAfterForParams_InPlace(inputMedia) ==
    prepareInputMediaForParams(inputMedia)

\* The caller's slice after prepareInputMediaForParams: newMedia is a new array
\* made by make and filled by copy, and the loop writes newMedia[idx] only.
callerMediaAfterForParams(inputMedia) ==
    [i \in 1..Len(inputMedia) |-> callerItemAfterParam(inputMedia[i], i - 1)]

RECURSIVE filesUpTo(_, _)
\* The loop of prepareInputMediaForFiles after its first n iterations.
filesUpTo(inputMedia, n) ==
    IF n = 0 THEN <<>>
    ELSE filesUpTo(inputMedia, n - 1) \o prepareInputMediaFile(inputMedia[n], n - 1)

\* prepareInputMediaForFiles numbering from a counter kept between calls.
prepareInputMediaForFiles_KeptCounter(inputMedia) ==
    [j \in 1..Len(filesUpTo(inputMedia, Len(inputMedia))) |->
       RequestFile(SprintfFile(Len(filesOut) + j - 1),
                   filesUpTo(inputMedia, Len(inputMedia))[j].Data)]

prepareInputMediaForFiles(inputMedia) == filesUpTo(inputMedia, Len(inputMedia))

-----------------------------------------------------------------------------
(* The descriptors *)

\* Remember what a call returned, keeping the results of the two latest calls.
Record(log, result) ==
    IF Len(log) < 2 THEN Append(log, result) ELSE Append(Tail(log), result)

\* The caller appends one element to MediaGroupConfig.Media; it is a new
\* descriptor value, for which nothing has been computed yet.
AppendMedia(item) ==
    /\ kind = "group"
    /\ Len(Media) < MaxLen
    /\ Media' = Append(Media, item)
    /\ paramsOut' = <<>>
    /\ filesOut' = <<>>
    /\ UNCHANGED <<kind, otherThanMedia>>

\* The caller sets EditMessageMediaConfig.Media.
SetMedia(item) ==
    /\ kind = "edit"
    /\ Media' = item
    /\ paramsOut' = <<>>
    /\ filesOut' = <<>>
    /\ UNCHANGED <<kind, otherThanMedia>>

\* Params() of the two descriptors: the model keeps the value written under
\* "media", the one key that depends on the Media field.
MediaGroupConfig_Params ==
    /\ kind = "group"
    /\ paramsOut' = Record(paramsOut, prepareInputMediaForParams(Media))
    /\ Media' = callerMediaAfterForParams(Media)
    /\ UNCHANGED <<kind, filesOut, otherThanMedia>>

MediaGroupConfig_files ==
    /\ kind = "group"
    /\ filesOut' = Record(filesOut, prepareInputMediaForFiles(Media))
    /\ UNCHANGED <<kind, Media, paramsOut, otherThanMedia>>

EditMessageMediaConfig_Params ==
    /\ kind = "edit"
    /\ paramsOut' = Record(paramsOut, prepareInputMediaParam(Media, 0))
    /\ Media' = callerItemAfterParam(Media, 0)
    /\ UNCHANGED <<kind, filesOut, otherThanMedia>>

\* EditMessageMediaConfig.files passing index 1.
EditMessageMediaConfig_files_IndexOne ==
    /\ kind = "edit"
    /\ filesOut' = Record(filesOut, prepareInputMediaFile(Media, 1))
    /\ UNCHANGED <<kind, Media, paramsOut, otherThanMedia>>

EditMessageMediaConfig_files ==
    /\ kind = "edit"
    /\ filesOut' = Record(filesOut, prepareInputMediaFile(Media, 0))
    /\ UNCHANGED <<kind, Media, paramsOut, otherThanMedia>>

\* No method has been called on the file reference yet.
NotCalled == [method |-> "none"]

\* The state of the variables of a specification that does not move them.
MediaIdle == kind = "group" /\ Media = <<>> /\ paramsOut = <<>> /\ filesOut = <<>>
FilesIdle == file = Nil /\ fsys = {} /\ accessed = NotCalled
ParamsIdle == config = Nil /\ built = Nil

\* What a caller holds before Params() and files() have returned.
NoPlan == [built |-> {}, media |-> <<>>, files |-> <<>>]

PlanIdle ==
    /\ fileable = Nil
    /\ planned = NoPlan
    /\ invoked = {}
    /\ opened = {}
    /\ fedBack = FALSE

\* The callers of the concurrent specification.
Callers == {1, 2}

\* What a caller holds before any of its calls has returned.
NoResult == [returned |-> {}, params |-> <<>>, files |-> <<>>]

CallersIdle ==
    /\ request = [c \in Callers |-> <<>>]
    /\ pc = [c \in Callers |-> "idle"]
    /\ idxOf = [c \in Callers |-> 0]
    /\ newMediaOf = [c \in Callers |-> <<>>]
    /\ filesOf = [c \in Callers |-> <<>>]
    /\ resultOf = [c \in Callers |-> NoResult]

Init ==
    /\ kind \in {"group", "edit"}
    /\ Media = IF kind = "group" THEN <<>> ELSE Nil
    /\ paramsOut = <<>>
    /\ filesOut = <<>>
    /\ FilesIdle
    /\ ParamsIdle
    /\ CallersIdle
    /\ PlanIdle

Next ==
    \/ \E item \in CallerItems : AppendMedia(item)
    \/ \E item \in CallerItems : SetMedia(item)
    \/ MediaGroupConfig_Params
    \/ MediaGroupConfig_files
    \/ EditMessageMediaConfig_Params
    \/ EditMessageMediaConfig_files

Spec == Init /\ [][Next]_vars

-----------------------------------------------------------------------------
(* The methods of RequestFileData *)

\* The strings a file reference is made of; as paths, some can be opened.
FileStrings == {"/tmp/video.mp4", "/tmp/missing.png"}

\* The file references of the six types.
FileReferences ==
    UNION { { FileBytes(d), FileReader(d), FilePath(d), FileURL(d), FileID(d),
              fileAttach(d) } : d \in FileStrings }

File_NeedsUpload ==
    /\ accessed' = [method |-> "NeedsUpload", out |-> NeedsUpload(file)]
    /\ UNCHANGED <<file, fsys, otherThanFiles>>

File_UploadData ==
    /\ accessed' = [method |-> "UploadData", out |-> UploadData(file, fsys)]
    /\ UNCHANGED <<file, fsys, otherThanFiles>>

File_SendData ==
    /\ accessed' = [method |-> "SendData", out |-> SendData(file)]
    /\ UNCHANGED <<file, fsys, otherThanFiles>>

InitFiles ==
    /\ file \in FileReferences
    /\ fsys \in SUBSET FileStrings
    /\ accessed = NotCalled
    /\ MediaIdle
    /\ ParamsIdle
    /\ CallersIdle
    /\ PlanIdle

NextFiles ==
    \/ File_NeedsUpload
    \/ File_UploadData
    \/ File_SendData

SpecFiles == InitFiles /\ [][NextFiles]_vars

-----------------------------------------------------------------------------
(* Params and its setters *)

\* make(Params): the empty map from field names to strings.
EmptyParams == [key \in {} |-> ""]

\* params[key] = value
Put(params, key, value) ==
    [k \in DOMAIN params \cup {key} |-> IF k = key THEN value ELSE params[k]]

\* The errors of the setters.
InvalidIdentifier == [type |-> "error", kind |-> "InvalidIdentifier"]
EncodingFailed == [type |-> "error", kind |-> "EncodingFailed"]

\* A structured value (slice, nested object, pointer) with what serialising it
\* gives: its JSON text, or a failure.
Encodable(json) == [type |-> "struct", ok |-> TRUE, json |-> json]
Unencodable == [type |-> "struct", ok |-> FALSE, json |-> ""]

\* The candidates of AddFirstValid: a number or a string.
Int64(n) == [type |-> "int64", value |-> n]
String(str) == [type |-> "string", value |-> str]

\* The zero-value test of the setters and the string a value is written as.
IsZero(arg) == IF arg.type = "string" THEN arg.value = "" ELSE arg.value = 0
Encoded(arg) == IF arg.type = "string" THEN arg.value ELSE ToString(arg.value)

AddNonZero(params, key, value) ==
    IF value # 0 THEN Put(params, key, ToString(value)) ELSE params

AddNonZero64(params, key, value) ==
    IF value # 0 THEN Put(params, key, ToString(value)) ELSE params

AddNonEmpty(params, key, value) ==
    IF value # "" THEN Put(params, key, value) ELSE params

\* A float64 with its decimal string form.
Float64(isZero, text) == [type |-> "float64", zero |-> isZero, text |-> text]

AddNonZeroFloat(params, key, value) ==
    IF ~value.zero THEN Put(params, key, value.text) ELSE params

AddBool(params, key, value) ==
    IF value THEN Put(params, key, "true") ELSE params

RECURSIVE FirstValidFrom(_, _)
\* The left-most candidate from position i on that is not a zero value, or Nil.
FirstValidFrom(args, i) ==
    IF i > Len(args) THEN Nil
    ELSE IF ~IsZero(args[i]) THEN args[i]
    ELSE FirstValidFrom(args, i + 1)

\* AddFirstValid writes the first candidate that qualifies, and fails with
\* InvalidIdentifier when none does.
AddFirstValid(params, key, args) ==
    IF FirstValidFrom(args, 1) = Nil
    THEN [params |-> params, err |-> InvalidIdentifier]
    ELSE [params |-> Put(params, key, Encoded(FirstValidFrom(args, 1))), err |-> Nil]

\* AddInterface writes the JSON text of a value that is not nil, and fails
\* with EncodingFailed when the value cannot be serialised.
AddInterface(params, key, value) ==
    IF value = Nil THEN [params |-> params, err |-> Nil]
    ELSE IF ~value.ok THEN [params |-> params, err |-> EncodingFailed]
    ELSE [params |-> Put(params, key, value.json), err |-> Nil]

-----------------------------------------------------------------------------
(* The request descriptors and their Params() *)

\* BaseChat.Params with the candidates of chat_id in the other order.
BaseChat_Params_UsernameFirst(chat) ==
    LET p1 == AddFirstValid(EmptyParams, "chat_id",
                            <<String(chat.ChannelUsername), Int64(chat.ChatID)>>).params
        p2 == AddNonZero(p1, "reply_to_message_id", chat.ReplyToMessageID)
        p3 == AddBool(p2, "disable_notification", chat.DisableNotification)
        p4 == AddBool(p3, "allow_sending_without_reply", chat.AllowSendingWithoutReply)
        p5 == AddBool(p4, "protect_content", chat.ProtectContent)
    IN  AddInterface(p5, "reply_markup", chat.ReplyMarkup)

\* The result of AddFirstValid is not looked at: only its write is kept.
BaseChat_Params(chat) ==
    LET p1 == AddFirstValid(EmptyParams, "chat_id",
                            <<Int64(chat.ChatID), String(chat.ChannelUsername)>>).params
        p2 == AddNonZero(p1, "reply_to_message_id", chat.ReplyToMessageID)
        p3 == AddBool(p2, "disable_notification", chat.DisableNotification)
        p4 == AddBool(p3, "allow_sending_without_reply", chat.AllowSendingWithoutReply)
        p5 == AddBool(p4, "protect_content", chat.ProtectContent)
    IN  AddInterface(p5, "reply_markup", chat.ReplyMarkup)

\* BaseEdit.Params that addresses by chat and message whatever else is set.
BaseEdit_Params_BothAddresses(edit) ==
    LET p1 == IF edit.InlineMessageID # ""
              THEN Put(EmptyParams, "inline_message_id", edit.InlineMessageID)
              ELSE EmptyParams
        p2 == AddNonZero(
                AddFirstValid(p1, "chat_id",
                              <<Int64(edit.ChatID), String(edit.ChannelUsername)>>).params,
                "message_id", edit.MessageID)
    IN  AddInterface(p2, "reply_markup", edit.ReplyMarkup)

BaseEdit_Params(edit) ==
    LET p1 == IF edit.InlineMessageID # ""
              THEN Put(EmptyParams, "inline_message_id", edit.InlineMessageID)
              ELSE AddNonZero(
                     AddFirstValid(EmptyParams, "chat_id",
                                   <<Int64(edit.ChatID), String(edit.ChannelUsername)>>).params,
                     "message_id", edit.MessageID)
    IN  AddInterface(p1, "reply_markup", edit.ReplyMarkup)

\* MessageConfig.Params that writes text and parse_mode whatever they hold.
MessageConfig_Params_Unconditional(c) ==
    LET base == BaseChat_Params(c.BaseChat)
        p1 == Put(base.params, "text", c.Text)
        p2 == AddBool(p1, "disable_web_page_preview", c.DisableWebPagePreview)
        p3 == Put(p2, "parse_mode", c.ParseMode)
    IN  IF base.err # Nil THEN base
        ELSE AddInterface(p3, "entities", c.Entities)

MessageConfig_Params(c) ==
    LET base == BaseChat_Params(c.BaseChat)
        p1 == AddNonEmpty(base.params, "text", c.Text)
        p2 == AddBool(p1, "disable_web_page_preview", c.DisableWebPagePreview)
        p3 == AddNonEmpty(p2, "parse_mode", c.ParseMode)
    IN  IF base.err # Nil THEN base
        ELSE AddInterface(p3, "entities", c.Entities)

\* Latitude and Longitude go through AddNonZeroFloat, as the optional
\* HorizontalAccuracy does.
LocationConfig_Params(c) ==
    LET base == BaseChat_Params(c.BaseChat)
        p1 == AddNonZeroFloat(base.params, "latitude", c.Latitude)
        p2 == AddNonZeroFloat(p1, "longitude", c.Longitude)
        p3 == AddNonZeroFloat(p2, "horizontal_accuracy", c.HorizontalAccuracy)
        p4 == AddNonZero(p3, "live_period", c.LivePeriod)
        p5 == AddNonZero(p4, "heading", c.Heading)
        p6 == AddNonZero(p5, "proximity_alert_radius", c.ProximityAlertRadius)
    IN  [params |-> p6, err |-> base.err]

\* The score is written under the key "scrore"; Force is not written.
SetGameScoreConfig_Params(c) ==
    LET p1 == AddNonZero64(EmptyParams, "user_id", c.UserID)
        p2 == AddNonZero(p1, "scrore", c.Score)
        p3 == AddBool(p2, "disable_edit_message", c.DisableEditMessage)
        p4 == IF c.InlineMessageID # ""
              THEN Put(p3, "inline_message_id", c.InlineMessageID)
              ELSE AddNonZero(
                     AddFirstValid(p3, "chat_id",
                                   <<Int64(c.ChatID), String(c.ChannelUsername)>>).params,
                     "message_id", c.MessageID)
    IN  [params |-> p4, err |-> Nil]

GetGameHighScoresConfig_Params(c) ==
    LET p1 == AddNonZero64(EmptyParams, "user_id", c.UserID)
        p2 == IF c.InlineMessageID # ""
              THEN Put(p1, "inline_message_id", c.InlineMessageID)
              ELSE AddNonZero(
                     AddFirstValid(p1, "chat_id",
                                   <<Int64(c.ChatID), String(c.ChannelUsername)>>).params,
                     "message_id", c.MessageID)
    IN  [params |-> p2, err |-> Nil]

UpdateConfig_Params(c) ==
    LET p1 == AddNonZero(EmptyParams, "offset", c.Offset)
        p2 == AddNonZero(p1, "limit", c.Limit)
        p3 == AddNonZero(p2, "timeout", c.Timeout)
        p4 == AddInterface(p3, "allowed_updates", c.AllowedUpdates).params
    IN  [params |-> p4, err |-> Nil]

UnbanChatMemberConfig_Params(c) ==
    LET p1 == AddFirstValid(EmptyParams, "chat_id",
                            <<Int64(c.ChatID), String(c.SuperGroupUsername),
                              String(c.ChannelUsername)>>).params
        p2 == AddNonZero64(p1, "user_id", c.UserID)
        p3 == AddBool(p2, "only_if_banned", c.OnlyIfBanned)
    IN  [params |-> p3, err |-> Nil]

BanChatSenderChatConfig_Params(c) ==
    LET p1 == AddFirstValid(EmptyParams, "chat_id",
                            <<Int64(c.ChatID), String(c.ChannelUsername)>>).params
        p2 == AddNonZero64(p1, "sender_chat_id", c.SenderChatID)
        p3 == AddNonZero(p2, "until_date", c.UntilDate)
    IN  [params |-> p3, err |-> Nil]

ShippingConfig_Params(c) ==
    LET p1 == Put(EmptyParams, "shipping_query_id", c.ShippingQueryID)
        p2 == AddBool(p1, "ok", c.OK)
        r == AddInterface(p2, "shipping_options", c.ShippingOptions)
        p3 == AddNonEmpty(r.params, "error_message", c.ErrorMessage)
    IN  [params |-> p3, err |-> r.err]

PreCheckoutConfig_Params(c) ==
    LET p1 == Put(EmptyParams, "pre_checkout_query_id", c.PreCheckoutQueryID)
        p2 == AddBool(p1, "ok", c.OK)
        p3 == AddNonEmpty(p2, "error_message", c.ErrorMessage)
    IN  [params |-> p3, err |-> Nil]

DeleteMessagesConfig_Params(c) ==
    LET p1 == AddFirstValid(EmptyParams, "chat_id",
                            <<Int64(c.ChatId), String(c.ChannelUsername)>>).params
        p2 == AddInterface(p1, "message_ids", c.MessageIDs).params
    IN  [params |-> p2, err |-> Nil]

SetChatMenuButtonConfig_Params(c) ==
    LET first == AddFirstValid(EmptyParams, "chat_id",
                               <<Int64(c.ChatID), String(c.ChannelUsername)>>)
    IN  IF first.err # Nil THEN first
        ELSE AddInterface(first.params, "menu_button", c.MenuButton)

\* Chattable.Params(): the method of the descriptor's dynamic type.
Chattable_Params(c) ==
    CASE c.type = "BaseChat" -> BaseChat_Params(c)
      [] c.type = "BaseEdit" -> BaseEdit_Params(c)
      [] c.type = "MessageConfig" -> MessageConfig_Params(c)
      [] c.type = "UpdateConfig" -> UpdateConfig_Params(c)
      [] c.type = "UnbanChatMemberConfig" -> UnbanChatMemberConfig_Params(c)
      [] c.type = "BanChatSenderChatConfig" -> BanChatSenderChatConfig_Params(c)
      [] c.type = "ShippingConfig" -> ShippingConfig_Params(c)
      [] c.type = "PreCheckoutConfig" -> PreCheckoutConfig_Params(c)
      [] c.type = "DeleteMessagesConfig" -> DeleteMessagesConfig_Params(c)
      [] c.type = "SetChatMenuButtonConfig" -> SetChatMenuButtonConfig_Params(c)
      [] c.type = "LocationConfig" -> LocationConfig_Params(c)
      [] c.type = "SetGameScoreConfig" -> SetGameScoreConfig_Params(c)
      [] c.type = "GetGameHighScoresConfig" -> GetGameHighScoresConfig_Params(c)

-----------------------------------------------------------------------------
(* SpecParams: a caller fills a descriptor and calls Params() on it *)

\* The field values a caller sets.
ChatIDs == {0, 42, -1001}
ChannelUsernames == {"", "@name"}
SuperGroupUsernames == {"", "@supergroup"}
MessageIDs == {0, 7}
Texts == {"", "hello"}
ParseModes == {"", "HTML"}
QueryIDs == {"", "query-1"}
InlineMessageIDs == {"", "inline-1"}
StructValues == {Nil, Encodable("{}"), Unencodable}

BaseChats ==
    [type : {"BaseChat"}, ChatID : ChatIDs, ChannelUsername : ChannelUsernames,
     ReplyToMessageID : MessageIDs, ReplyMarkup : StructValues,
     DisableNotification : BOOLEAN, AllowSendingWithoutReply : BOOLEAN,
     ProtectContent : BOOLEAN]

BaseEdits ==
    [type : {"BaseEdit"}, ChatID : ChatIDs, ChannelUsername : ChannelUsernames,
     MessageID : MessageIDs, InlineMessageID : InlineMessageIDs,
     ReplyMarkup : StructValues]

MessageConfigs ==
    [type : {"MessageConfig"}, BaseChat : BaseChats, Text : Texts,
     ParseMode : ParseModes, Entities : StructValues,
     DisableWebPagePreview : BOOLEAN]

UpdateConfigs ==
    [type : {"UpdateConfig"}, Offset : MessageIDs, Limit : MessageIDs,
     Timeout : MessageIDs, AllowedUpdates : StructValues]

UnbanChatMemberConfigs ==
    [type : {"UnbanChatMemberConfig"}, ChatID : ChatIDs,
     SuperGroupUsername : SuperGroupUsernames,
     ChannelUsername : ChannelUsernames, UserID : ChatIDs,
     OnlyIfBanned : BOOLEAN]

BanChatSenderChatConfigs ==
    [type : {"BanChatSenderChatConfig"}, ChatID : ChatIDs,
     ChannelUsername : ChannelUsernames, SenderChatID : ChatIDs,
     UntilDate : MessageIDs]

ShippingConfigs ==
    [type : {"ShippingConfig"}, ShippingQueryID : QueryIDs, OK : BOOLEAN,
     ShippingOptions : StructValues, ErrorMessage : Texts]

PreCheckoutConfigs ==
    [type : {"PreCheckoutConfig"}, PreCheckoutQueryID : QueryIDs, OK : BOOLEAN,
     ErrorMessage : Texts]

DeleteMessagesConfigs ==
    [type : {"DeleteMessagesConfig"}, ChatId : ChatIDs,
     ChannelUsername : ChannelUsernames, MessageIDs : StructValues]

SetChatMenuButtonConfigs ==
    [type : {"SetChatMenuButtonConfig"}, ChatID : ChatIDs,
     ChannelUsername : ChannelUsernames, MenuButton : StructValues]

\* The coordinates and accuracies a caller sets.
Coordinates == {Float64(TRUE, "0"), Float64(FALSE, "48.8584")}

\* The BaseChat values with no flag set.
PlainBaseChats ==
    {chat \in BaseChats :
       ~chat.DisableNotification /\ ~chat.AllowSendingWithoutReply
         /\ ~chat.ProtectContent}

LocationConfigs ==
    [type : {"LocationConfig"}, BaseChat : PlainBaseChats,
     Latitude : Coordinates, Longitude : Coordinates,
     HorizontalAccuracy : Coordinates, LivePeriod : MessageIDs,
     Heading : MessageIDs, ProximityAlertRadius : MessageIDs]

SetGameScoreConfigs ==
    [type : {"SetGameScoreConfig"}, UserID : ChatIDs, Score : MessageIDs,
     Force : BOOLEAN, DisableEditMessage : BOOLEAN, ChatID : ChatIDs,
     ChannelUsername : ChannelUsernames, MessageID : MessageIDs,
     InlineMessageID : InlineMessageIDs]

GetGameHighScoresConfigs ==
    [type : {"GetGameHighScoresConfig"}, UserID : ChatIDs, ChatID : ChatIDs,
     ChannelUsername : ChannelUsernames, MessageID : MessageIDs,
     InlineMessageID : InlineMessageIDs]

Chattables ==
    BaseChats \cup BaseEdits \cup MessageConfigs \cup UpdateConfigs
        \cup UnbanChatMemberConfigs \cup BanChatSenderChatConfigs
        \cup ShippingConfigs \cup PreCheckoutConfigs
        \cup DeleteMessagesConfigs \cup SetChatMenuButtonConfigs
        \cup LocationConfigs \cup SetGameScoreConfigs
        \cup GetGameHighScoresConfigs

\* The caller asks the descriptor it holds for its parameters.
CallParams ==
    /\ built = Nil
    /\ built' = Chattable_Params(config)
    /\ UNCHANGED <<config, otherThanParams>>

\* The caller has filled in a descriptor and has not yet asked for anything.
InitParams ==
    /\ config \in Chattables
    /\ built = Nil
    /\ MediaIdle
    /\ FilesIdle
    /\ CallersIdle
    /\ PlanIdle

NextParams == CallParams

SpecParams == InitParams /\ [][NextParams]_vars

-----------------------------------------------------------------------------
(* SpecCallers: callers build their own media groups concurrently *)

\* The items the concurrent callers put in their media groups.
ConcurrentItems ==
    { InputMediaThumb("InputMediaVideo", FilePath("/tmp/video.mp4"), FileBytes("thumb.jpg")),
      InputMediaPhoto(FileID("AgADBAAD")) }

RECURSIVE SeqsUpTo(_, _)
\* The sequences over a set of at most n items.
SeqsUpTo(S, n) ==
    IF n = 0 THEN {<<>>}
    ELSE SeqsUpTo(S, n - 1)
           \cup {Append(q, x) : q \in {r \in SeqsUpTo(S, n - 1) : Len(r) = n - 1}, x \in S}

\* The loop index read from one counter that all the calls share.
loopIndex_Shared(c) == idxOf[CHOOSE d \in Callers : \A other \in Callers : d <= other]

\* for idx, media := range inputMedia: the index is a local of the call.
loopIndex(c) == idxOf[c]

\* The caller fills in a new MediaGroupConfig, dropping the earlier results.
NewRequest(c, media) ==
    /\ pc[c] = "idle"
    /\ request' = [request EXCEPT ![c] = media]
    /\ resultOf' = [resultOf EXCEPT ![c] = NoResult]
    /\ UNCHANGED <<pc, idxOf, newMediaOf, filesOf, otherThanCallers>>

\* prepareInputMediaForParams is entered: make and copy.
ForParams_Enter(c) ==
    /\ pc[c] = "idle"
    /\ pc' = [pc EXCEPT ![c] = "prepareInputMediaForParams"]
    /\ newMediaOf' = [newMediaOf EXCEPT ![c] = request[c]]
    /\ idxOf' = [idxOf EXCEPT ![c] = 0]
    /\ UNCHANGED <<request, filesOf, resultOf, otherThanCallers>>

\* One iteration of the loop of prepareInputMediaForParams.
ForParams_Iterate(c) ==
    /\ pc[c] = "prepareInputMediaForParams"
    /\ loopIndex(c) < Len(request[c])
    /\ LET param == prepareInputMediaParam(request[c][loopIndex(c) + 1], loopIndex(c))
       IN  newMediaOf' = [newMediaOf EXCEPT
                          ![c][loopIndex(c) + 1] = IF param # Nil THEN param ELSE @]
    /\ idxOf' = [idxOf EXCEPT ![c] = loopIndex(c) + 1]
    /\ UNCHANGED <<request, pc, filesOf, resultOf, otherThanCallers>>

\* prepareInputMediaForParams returns newMedia.
ForParams_Return(c) ==
    /\ pc[c] = "prepareInputMediaForParams"
    /\ loopIndex(c) >= Len(request[c])
    /\ resultOf' = [resultOf EXCEPT ![c].params = newMediaOf[c],
                                ![c].returned = @ \cup {"Params"}]
    /\ pc' = [pc EXCEPT ![c] = "idle"]
    /\ newMediaOf' = [newMediaOf EXCEPT ![c] = <<>>]
    /\ idxOf' = [idxOf EXCEPT ![c] = 0]
    /\ UNCHANGED <<request, filesOf, otherThanCallers>>

\* prepareInputMediaForFiles is entered: files := []RequestFile{}.
ForFiles_Enter(c) ==
    /\ pc[c] = "idle"
    /\ pc' = [pc EXCEPT ![c] = "prepareInputMediaForFiles"]
    /\ filesOf' = [filesOf EXCEPT ![c] = <<>>]
    /\ idxOf' = [idxOf EXCEPT ![c] = 0]
    /\ UNCHANGED <<request, newMediaOf, resultOf, otherThanCallers>>

\* One iteration of the loop of prepareInputMediaForFiles.
ForFiles_Iterate(c) ==
    /\ pc[c] = "prepareInputMediaForFiles"
    /\ loopIndex(c) < Len(request[c])
    /\ filesOf' = [filesOf EXCEPT
                     ![c] = @ \o prepareInputMediaFile(request[c][loopIndex(c) + 1],
                                                       loopIndex(c))]
    /\ idxOf' = [idxOf EXCEPT ![c] = loopIndex(c) + 1]
    /\ UNCHANGED <<request, pc, newMediaOf, resultOf, otherThanCallers>>

\* prepareInputMediaForFiles returns files.
ForFiles_Return(c) ==
    /\ pc[c] = "prepareInputMediaForFiles"
    /\ loopIndex(c) >= Len(request[c])
    /\ resultOf' = [resultOf EXCEPT ![c].files = filesOf[c],
                                    ![c].returned = @ \cup {"files"}]
    /\ pc' = [pc EXCEPT ![c] = "idle"]
    /\ filesOf' = [filesOf EXCEPT ![c] = <<>>]
    /\ idxOf' = [idxOf EXCEPT ![c] = 0]
    /\ UNCHANGED <<request, newMediaOf, otherThanCallers>>

InitCallers ==
    /\ CallersIdle
    /\ PlanIdle
    /\ MediaIdle
    /\ FilesIdle
    /\ ParamsIdle

NextCallers ==
    \E c \in Callers :
      \/ \E media \in SeqsUpTo(ConcurrentItems, MaxLen) : NewRequest(c, media)
      \/ ForParams_Enter(c)
      \/ ForParams_Iterate(c)
      \/ ForParams_Return(c)
      \/ ForFiles_Enter(c)
      \/ ForFiles_Iterate(c)
      \/ ForFiles_Return(c)

SpecCallers == InitCallers /\ [][NextCallers]_vars

-----------------------------------------------------------------------------
(* SpecPlan: a descriptor with files, its plan, and the sender reading it *)

\* The file references a caller puts in PhotoConfig and WebhookConfig.
SendFiles ==
    {FilePath("/tmp/video.mp4"), FileBytes("photo.jpg"),
     FileURL("https://example.org/a"), FileID("AgADBAAD")}
SendThumbs == {Nil, FileBytes("thumb.jpg"), FileID("AAQCthumb")}

\* The items a caller puts in the Media of a media descriptor.
PlanItems ==
    { InputMediaPhoto(FilePath("/tmp/video.mp4")),
      InputMediaThumb("InputMediaVideo", FilePath("/tmp/video.mp4"), FileBytes("thumb.jpg")),
      InputMediaThumb("InputMediaAudio", FileID("AgADBAAD"), FileID("AAQCthumb")),
      OtherValue }

PhotoConfigs == [type : {"PhotoConfig"}, File : SendFiles, Thumb : SendThumbs]
WebhookConfigs == [type : {"WebhookConfig"}, Certificate : SendFiles \cup {Nil}]
MediaGroupConfigs ==
    [type : {"MediaGroupConfig"}, Media : SeqsUpTo(PlanItems, MaxLen)]
EditMessageMediaConfigs ==
    [type : {"EditMessageMediaConfig"}, Media : PlanItems \ {OtherValue}]

Fileables ==
    PhotoConfigs \cup WebhookConfigs \cup MediaGroupConfigs
        \cup EditMessageMediaConfigs

PhotoConfig_files(c) ==
    <<RequestFile("photo", c.File)>>
      \o (IF c.Thumb # Nil THEN <<RequestFile("thumb", c.Thumb)>> ELSE <<>>)

WebhookConfig_files(c) ==
    IF c.Certificate # Nil
    THEN <<RequestFile("certificate", c.Certificate)>>
    ELSE <<>>

\* Fileable.files(): the method of the descriptor's dynamic type.
Fileable_files(c) ==
    CASE c.type = "PhotoConfig" -> PhotoConfig_files(c)
      [] c.type = "WebhookConfig" -> WebhookConfig_files(c)
      [] c.type = "MediaGroupConfig" -> prepareInputMediaForFiles(c.Media)
      [] c.type = "EditMessageMediaConfig" -> prepareInputMediaFile(c.Media, 0)

\* What Params() of a media descriptor hands to AddInterface under "media".
Fileable_media(c) ==
    CASE c.type = "MediaGroupConfig" -> prepareInputMediaForParams(c.Media)
      [] c.type = "EditMessageMediaConfig" -> prepareInputMediaParam(c.Media, 0)

\* A method called on a file reference.
Call(method, f, caller) == [method |-> method, file |-> f, by |-> caller]

\* The resolver asking a media for a string it can send.
itemAccessors_SendDataFirst(inputMedia) ==
    CASE inputMedia.type = "InputMediaPhoto" ->
           {Call("SendData", inputMedia.Media, "resolver")}
      [] inputMedia.type \in ThumbTypes ->
           {Call("SendData", inputMedia.Media, "resolver")}
           \cup (IF inputMedia.Thumb # Nil
                 THEN {Call("NeedsUpload", inputMedia.Thumb, "resolver")} ELSE {})
      [] OTHER -> {}

\* The methods prepareInputMediaParam and prepareInputMediaFile call on the
\* file references of an item: m.Media.NeedsUpload(), and m.Thumb.NeedsUpload()
\* of a thumbnail that is not nil.
itemAccessors(inputMedia) ==
    CASE inputMedia.type = "InputMediaPhoto" ->
           {Call("NeedsUpload", inputMedia.Media, "resolver")}
      [] inputMedia.type \in ThumbTypes ->
           {Call("NeedsUpload", inputMedia.Media, "resolver")}
           \cup (IF inputMedia.Thumb # Nil
                 THEN {Call("NeedsUpload", inputMedia.Thumb, "resolver")} ELSE {})
      [] OTHER -> {}

\* The methods Params() and files() of a descriptor call on file references:
\* the send-file descriptors call none.
Fileable_accessors(c) ==
    CASE c.type = "MediaGroupConfig" ->
           UNION {itemAccessors(c.Media[i]) : i \in 1..Len(c.Media)}
      [] c.type = "EditMessageMediaConfig" -> itemAccessors(c.Media)
      [] OTHER -> {}

\* The caller asks the descriptor for its files.
CallFiles ==
    /\ "files" \notin planned.built
    /\ planned' = [planned EXCEPT !.files = Fileable_files(fileable),
                            !.built = @ \cup {"files"}]
    /\ invoked' = invoked \cup Fileable_accessors(fileable)
    /\ UNCHANGED <<fileable, opened, fedBack, otherThanPlan>>

\* The caller asks a media descriptor for its parameters.
CallMediaParams ==
    /\ fileable.type \in {"MediaGroupConfig", "EditMessageMediaConfig"}
    /\ "Params" \notin planned.built
    /\ planned' = [planned EXCEPT !.media = Fileable_media(fileable),
                            !.built = @ \cup {"Params"}]
    /\ invoked' = invoked \cup Fileable_accessors(fileable)
    /\ UNCHANGED <<fileable, opened, fedBack, otherThanPlan>>

\* The sender reads one of the files: UploadData when it needs upload,
\* SendData when it does not. UploadData of a FilePath calls os.Open.
ReadFile(i) ==
    /\ "files" \in planned.built
    /\ i \in 1..Len(planned.files)
    /\ LET f == planned.files[i].Data
       IN  /\ invoked' = invoked
                \cup {Call("NeedsUpload", f, "sender"),
                      Call(IF NeedsUpload(f) THEN "UploadData" ELSE "SendData",
                           f, "sender")}
           /\ opened' = IF NeedsUpload(f) /\ f.type = "FilePath"
                        THEN opened \cup {f.data} ELSE opened
    /\ UNCHANGED <<fileable, planned, fedBack, otherThanPlan>>

\* The caller submits the rewritten media again as the Media of a new group.
SubmitAgain ==
    /\ fileable.type = "MediaGroupConfig"
    /\ "Params" \in planned.built
    /\ ~fedBack
    /\ fileable' = [fileable EXCEPT !.Media = planned.media]
    /\ fedBack' = TRUE
    /\ planned' = NoPlan
    /\ invoked' = {}
    /\ opened' = {}
    /\ UNCHANGED otherThanPlan

InitPlan ==
    /\ fileable \in Fileables
    /\ planned = NoPlan
    /\ invoked = {}
    /\ opened = {}
    /\ fedBack = FALSE
    /\ MediaIdle
    /\ FilesIdle
    /\ ParamsIdle
    /\ CallersIdle

NextPlan ==
    \/ CallFiles
    \/ CallMediaParams
    \/ \E i \in 1..(2 * MaxLen) : ReadFile(i)
    \/ SubmitAgain

SpecPlan == InitPlan /\ [][NextPlan]_vars

-----------------------------------------------------------------------------
(* Reading a result: the rewritten sequence, its tokens, the part names *)

\* The caller's input as a sequence: a single-item edit is the item at index 0.
InputSeq == IF kind = "group" THEN Media ELSE <<Media>>

\* What Params() put under "media", as a sequence.
Rewritten(p) == IF kind = "group" THEN p ELSE <<p>>

IsMedia(item) == item.type \in MediaTypes
HasThumb(item) == item.type \in ThumbTypes /\ item.Thumb # Nil

\* Every pair of a returned rewritten sequence and a returned file list.
Plans ==
    { <<Rewritten(paramsOut[a]), filesOut[b]>> :
        a \in DOMAIN paramsOut, b \in DOMAIN filesOut }

AttachPrefix == "attach://"

IsToken(f) ==
    /\ f.type = "fileAttach"
    /\ Len(f.data) >= Len(AttachPrefix)
    /\ SubSeq(f.data, 1, Len(AttachPrefix)) = AttachPrefix

\* The X of a token attach://X.
TokenName(f) == SubSeq(f.data, Len(AttachPrefix) + 1, Len(f.data))

\* The places of a rewritten sequence that hold a token: <<position, field>>.
TokenPlaces(p) ==
    { <<i, "Media">> : i \in { k \in DOMAIN p : IsMedia(p[k]) /\ IsToken(p[k].Media) } }
    \cup
    { <<i, "Thumb">> : i \in { k \in DOMAIN p : HasThumb(p[k]) /\ IsToken(p[k].Thumb) } }

TokenAt(p, place) ==
    IF place[2] = "Media" THEN p[place[1]].Media ELSE p[place[1]].Thumb

\* The positions of a file list whose part has the given name.
PartsNamed(f, name) == { j \in DOMAIN f : f[j].Name = name }

\* The places of a rewritten sequence whose token names the given part.
TokensNaming(p, name) ==
    { place \in TokenPlaces(p) : TokenName(TokenAt(p, place)) = name }

\* Both outputs exist for the descriptor the caller holds.
Resolved == paramsOut # <<>> /\ filesOut # <<>>

-----------------------------------------------------------------------------
(* Claims *)

\* C1: no dangling token. Every attach://X token in a rewritten sequence has a
\* RequestFile named exactly X in the file list produced for the same input.
C1_NoDanglingToken ==
    \A plan \in Plans :
      \A place \in TokenPlaces(plan[1]) :
        PartsNamed(plan[2], TokenName(TokenAt(plan[1], place))) # {}

\* C2: no duplicate part names. The names of the RequestFiles of one list,
\* for a media group or for a single-item edit, are pairwise distinct.
C2_DistinctPartNames ==
    \A b \in DOMAIN filesOut :
      \A i, j \in DOMAIN filesOut[b] :
        i # j => filesOut[b][i].Name # filesOut[b][j].Name

\* C3: no orphan part. Every RequestFile's name is the suffix of exactly one
\* token of the rewritten sequence.
C3_NoOrphanPart ==
    \A plan \in Plans :
      \A j \in DOMAIN plan[2] :
        Cardinality(TokensNaming(plan[1], plan[2][j].Name)) = 1

\* Every item has a media and a thumbnail and both need upload.
AllNeedUpload(input) ==
    \A i \in DOMAIN input :
      /\ HasThumb(input[i])
      /\ NeedsUpload(input[i].Media)
      /\ NeedsUpload(input[i].Thumb)

\* C4: over N items that all need upload for media and thumbnail, there are
\* exactly 2N RequestFiles, with distinct names, and every token matches
\* exactly one RequestFile name.
C4_TwoPartsPerItem ==
    AllNeedUpload(InputSeq) =>
      \A plan \in Plans :
        /\ Len(plan[2]) = 2 * Len(InputSeq)
        /\ \A i, j \in DOMAIN plan[2] : i # j => plan[2][i].Name # plan[2][j].Name
        /\ \A place \in TokenPlaces(plan[1]) :
             Cardinality(PartsNamed(plan[2], TokenName(TokenAt(plan[1], place)))) = 1

\* C5: thumbnail step. For an item at index i whose thumbnail is present and
\* needs upload, the rewritten thumbnail is the token attach://file-{i}-thumb
\* and the file list has a part named file-{i}-thumb carrying the original
\* thumbnail.
C5_ThumbnailStep ==
    \A plan \in Plans :
      \A i \in DOMAIN InputSeq :
        (HasThumb(InputSeq[i]) /\ NeedsUpload(InputSeq[i].Thumb)) =>
          /\ plan[1][i].Thumb =
               fileAttach("attach://file-" \o ToString(i - 1) \o "-thumb")
          /\ \E j \in DOMAIN plan[2] :
               /\ plan[2][j].Name = "file-" \o ToString(i - 1) \o "-thumb"
               /\ plan[2][j].Data = InputSeq[i].Thumb

\* C6: media step. For an item of any of the four variants at index i whose
\* media needs upload, the rewritten media is the token attach://file-{i} and
\* the file list has a part named file-{i} carrying the original media.
C6_MediaStep ==
    \A plan \in Plans :
      \A i \in DOMAIN InputSeq :
        (IsMedia(InputSeq[i]) /\ NeedsUpload(InputSeq[i].Media)) =>
          /\ plan[1][i].Media = fileAttach("attach://file-" \o ToString(i - 1))
          /\ \E j \in DOMAIN plan[2] :
               /\ plan[2][j].Name = "file-" \o ToString(i - 1)
               /\ plan[2][j].Data = InputSeq[i].Media

C6_Witness ==
    /\ kind = "group"
    /\ Resolved
    /\ Len(Media) = 2
    /\ IsMedia(Media[2])
    /\ NeedsUpload(Media[2].Media)
    /\ HasThumb(Media[2])
    /\ NeedsUpload(Media[2].Thumb)

\* C7: a single-item edit is the group algorithm at length 1. For a media item
\* m, EditMessageMediaConfig{Media: m} gives the rewritten item and the file
\* list (names, data, order) that MediaGroupConfig gives for the sequence [m].
C7_EditIsGroupOfOne ==
    (kind = "edit" /\ IsMedia(Media)) =>
      /\ \A a \in DOMAIN paramsOut :
           /\ Len(prepareInputMediaForParams(<<Media>>)) = 1
           /\ paramsOut[a] = prepareInputMediaForParams(<<Media>>)[1]
      /\ \A b \in DOMAIN filesOut :
           filesOut[b] = prepareInputMediaForFiles(<<Media>>)

C7_Witness ==
    /\ kind = "edit"
    /\ Resolved
    /\ HasThumb(Media)
    /\ NeedsUpload(Media.Media)
    /\ NeedsUpload(Media.Thumb)

\* The positions of the input holding an InputMediaPhoto that needs upload.
PhotosToUpload ==
    { i \in DOMAIN InputSeq :
        InputSeq[i].type = "InputMediaPhoto" /\ NeedsUpload(InputSeq[i].Media) }

\* C8: a Photo at index i yields exactly one RequestFile, named file-{i}, and
\* the media token attach://file-{i} when its media needs upload, and no
\* RequestFile otherwise.
C8_PhotoStep ==
    /\ \A i \in DOMAIN InputSeq :
         InputSeq[i].type = "InputMediaPhoto" =>
           /\ \A b \in DOMAIN filesOut :
                /\ Cardinality(PartsNamed(filesOut[b], "file-" \o ToString(i - 1)))
                     = IF i \in PhotosToUpload THEN 1 ELSE 0
                /\ PartsNamed(filesOut[b], "file-" \o ToString(i - 1) \o "-thumb") = {}
           /\ \A a \in DOMAIN paramsOut :
                Rewritten(paramsOut[a])[i].Media =
                  IF i \in PhotosToUpload
                  THEN fileAttach("attach://file-" \o ToString(i - 1))
                  ELSE InputSeq[i].Media
    /\ (\A i \in DOMAIN InputSeq : InputSeq[i].type = "InputMediaPhoto") =>
         \A b \in DOMAIN filesOut : Len(filesOut[b]) = Cardinality(PhotosToUpload)

C8_Witness ==
    /\ kind = "group"
    /\ Resolved
    /\ Len(Media) = 2
    /\ PhotosToUpload = {2}
    /\ Media[1].type = "InputMediaPhoto"

\* None of the item's file references needs upload.
NothingToUpload(item) ==
    /\ IsMedia(item)
    /\ ~NeedsUpload(item.Media)
    /\ HasThumb(item) => ~NeedsUpload(item.Thumb)

\* C9: an item none of whose file references needs upload produces no
\* RequestFile and is equal to the input item in the rewritten sequence, so
\* its media is the raw id or url string that SendData returns.
C9_RemotePassThrough ==
    /\ \A i \in DOMAIN InputSeq :
         NothingToUpload(InputSeq[i]) =>
           /\ \A b \in DOMAIN filesOut :
                /\ PartsNamed(filesOut[b], "file-" \o ToString(i - 1)) = {}
                /\ PartsNamed(filesOut[b], "file-" \o ToString(i - 1) \o "-thumb") = {}
           /\ \A a \in DOMAIN paramsOut :
                /\ Rewritten(paramsOut[a])[i] = InputSeq[i]
                /\ SendData(Rewritten(paramsOut[a])[i].Media) =
                     [panic |-> FALSE, value |-> InputSeq[i].Media.data]
    /\ (\A i \in DOMAIN InputSeq : NothingToUpload(InputSeq[i])) =>
         \A b \in DOMAIN filesOut : filesOut[b] = <<>>

C9_Witness ==
    /\ kind = "group"
    /\ Resolved
    /\ Len(Media) = 2
    /\ IsMedia(Media[1]) /\ NeedsUpload(Media[1].Media)
    /\ NothingToUpload(Media[2])
    /\ HasThumb(Media[2])
    /\ Media[2].Media.type = "FileID"

C11_InputReadOnly ==
    [][(paramsOut' # <<>> \/ filesOut' # <<>>) => Media' = Media]_vars

C11_Witness ==
    /\ kind = "group"
    /\ Resolved
    /\ Len(Media) = 2
    /\ TokenPlaces(paramsOut[1]) = {<<1, "Media">>, <<2, "Media">>, <<2, "Thumb">>}
    /\ TokenPlaces(Media) = {}

\* C12: metadata pass-through. A rewritten media item has the variant of the
\* input item and the same value in every field other than Media and Thumb.
C12_MetadataPassThrough ==
    \A a \in DOMAIN paramsOut :
      \A i \in DOMAIN InputSeq :
        IsMedia(InputSeq[i]) =>
          /\ DOMAIN Rewritten(paramsOut[a])[i] = DOMAIN InputSeq[i]
          /\ Rewritten(paramsOut[a])[i].type = InputSeq[i].type
          /\ \A field \in DOMAIN InputSeq[i] \ {"Media", "Thumb"} :
               Rewritten(paramsOut[a])[i][field] = InputSeq[i][field]

C12_Witness ==
    /\ kind = "group"
    /\ paramsOut # <<>>
    /\ Len(Media) = 2
    /\ Media[1].type = "InputMediaPhoto"
    /\ Media[2].type = "InputMediaAudio"
    /\ Media[1].Caption = CallerCaption
    /\ TokenPlaces(paramsOut[1]) = {<<1, "Media">>, <<2, "Thumb">>}

UploadTypes == {"FileBytes", "FileReader", "FilePath"}

\* C13: accessor contract. For each of the six file reference types exactly
\* one accessor is valid: UploadData returns iff NeedsUpload is true (FileBytes,
\* FileReader, FilePath) and SendData returns iff it is false (FileURL, FileID,
\* fileAttach); the other accessor panics and returns no error value.
C13_AccessorContract ==
    /\ accessed.method = "NeedsUpload" =>
         accessed.out = (file.type \in UploadTypes)
    /\ accessed.method = "UploadData" =>
         /\ accessed.out.panic = ~NeedsUpload(file)
         /\ accessed.out.panic => "err" \notin DOMAIN accessed.out
    /\ accessed.method = "SendData" =>
         /\ accessed.out.panic = NeedsUpload(file)
         /\ ~accessed.out.panic => accessed.out.value = file.data

C13_Witness ==
    /\ file.type = "FileID"
    /\ accessed.method = "UploadData"
    /\ accessed.out.panic

\* C14: UploadData of a FilePath never panics: when the path cannot be opened
\* it returns an empty file name, no reader and the error; when it can, the
\* opened file's name, its handle and no error.
C14_FilePathUploadData ==
    (file.type = "FilePath" /\ accessed.method = "UploadData") =>
      /\ ~accessed.out.panic
      /\ file.data \notin fsys =>
           /\ accessed.out.name = ""
           /\ accessed.out.reader = Nil
           /\ accessed.out.err # Nil
      /\ file.data \in fsys =>
           /\ accessed.out.name = file.data
           /\ accessed.out.reader = [type |-> "os.File", name |-> file.data]
           /\ accessed.out.err = Nil

C14_Witness ==
    /\ file = FilePath("/tmp/missing.png")
    /\ fsys = {"/tmp/video.mp4"}
    /\ accessed.method = "UploadData"
    /\ accessed.out.err # Nil

-----------------------------------------------------------------------------
(* Reading a descriptor: its chat_id candidates, its structured and its    *)
(* optional fields                                                         *)

\* The descriptors that address their target through AddFirstValid.
AddressedByFirstValid(c) ==
    \/ c.type \in {"BaseChat", "MessageConfig", "UnbanChatMemberConfig",
                   "BanChatSenderChatConfig", "DeleteMessagesConfig",
                   "SetChatMenuButtonConfig", "LocationConfig"}
    \/ /\ c.type \in {"BaseEdit", "SetGameScoreConfig", "GetGameHighScoresConfig"}
       /\ c.InlineMessageID = ""

\* The candidates such a descriptor offers for chat_id, in order.
ChatIDCandidates(c) ==
    CASE c.type \in {"MessageConfig", "LocationConfig"} ->
           <<Int64(c.BaseChat.ChatID), String(c.BaseChat.ChannelUsername)>>
      [] c.type = "UnbanChatMemberConfig" ->
           <<Int64(c.ChatID), String(c.SuperGroupUsername), String(c.ChannelUsername)>>
      [] c.type = "DeleteMessagesConfig" ->
           <<Int64(c.ChatId), String(c.ChannelUsername)>>
      [] OTHER -> <<Int64(c.ChatID), String(c.ChannelUsername)>>

NoCandidate(c) ==
    \A i \in 1..Len(ChatIDCandidates(c)) : IsZero(ChatIDCandidates(c)[i])

\* The structured fields a descriptor hands to AddInterface.
EncodedFields(c) ==
    CASE c.type = "BaseChat" -> {c.ReplyMarkup}
      [] c.type = "BaseEdit" -> {c.ReplyMarkup}
      [] c.type = "MessageConfig" -> {c.BaseChat.ReplyMarkup, c.Entities}
      [] c.type = "LocationConfig" -> {c.BaseChat.ReplyMarkup}
      [] c.type = "UpdateConfig" -> {c.AllowedUpdates}
      [] c.type = "ShippingConfig" -> {c.ShippingOptions}
      [] c.type = "DeleteMessagesConfig" -> {c.MessageIDs}
      [] c.type = "SetChatMenuButtonConfig" -> {c.MenuButton}
      [] OTHER -> {}

\* An optional field: the key it is written under, its kind, its value.
Optional(key, fieldKind, value) == [key |-> key, kind |-> fieldKind, value |-> value]

BaseChatOptionals(chat) ==
    {Optional("reply_to_message_id", "number", chat.ReplyToMessageID),
     Optional("disable_notification", "bool", chat.DisableNotification),
     Optional("allow_sending_without_reply", "bool", chat.AllowSendingWithoutReply),
     Optional("protect_content", "bool", chat.ProtectContent)}

\* The optional fields Params() of a descriptor reaches, and passes to
\* AddNonZero, AddNonZero64, AddNonEmpty or AddBool.
OptionalFields(c) ==
    CASE c.type = "BaseChat" -> BaseChatOptionals(c)
      [] c.type = "MessageConfig" ->
           BaseChatOptionals(c.BaseChat) \cup
           IF c.BaseChat.ReplyMarkup = Unencodable THEN {}
           ELSE {Optional("text", "string", c.Text),
                 Optional("disable_web_page_preview", "bool", c.DisableWebPagePreview),
                 Optional("parse_mode", "string", c.ParseMode)}
      [] c.type = "BaseEdit" ->
           IF c.InlineMessageID # "" THEN {}
           ELSE {Optional("message_id", "number", c.MessageID)}
      [] c.type = "UpdateConfig" ->
           {Optional("offset", "number", c.Offset),
            Optional("limit", "number", c.Limit),
            Optional("timeout", "number", c.Timeout)}
      [] c.type = "UnbanChatMemberConfig" ->
           {Optional("user_id", "number", c.UserID),
            Optional("only_if_banned", "bool", c.OnlyIfBanned)}
      [] c.type = "BanChatSenderChatConfig" ->
           {Optional("sender_chat_id", "number", c.SenderChatID),
            Optional("until_date", "number", c.UntilDate)}
      [] c.type = "ShippingConfig" ->
           {Optional("ok", "bool", c.OK),
            Optional("error_message", "string", c.ErrorMessage)}
      [] c.type = "PreCheckoutConfig" ->
           {Optional("ok", "bool", c.OK),
            Optional("error_message", "string", c.ErrorMessage)}
      [] c.type = "LocationConfig" ->
           BaseChatOptionals(c.BaseChat) \cup
           {Optional("latitude", "float", c.Latitude),
            Optional("longitude", "float", c.Longitude),
            Optional("horizontal_accuracy", "float", c.HorizontalAccuracy),
            Optional("live_period", "number", c.LivePeriod),
            Optional("heading", "number", c.Heading),
            Optional("proximity_alert_radius", "number", c.ProximityAlertRadius)}
      [] c.type = "SetGameScoreConfig" ->
           {Optional("user_id", "number", c.UserID),
            Optional("scrore", "number", c.Score),
            Optional("disable_edit_message", "bool", c.DisableEditMessage)}
           \cup IF c.InlineMessageID # "" THEN {}
                ELSE {Optional("message_id", "number", c.MessageID)}
      [] c.type = "GetGameHighScoresConfig" ->
           {Optional("user_id", "number", c.UserID)}
           \cup IF c.InlineMessageID # "" THEN {}
                ELSE {Optional("message_id", "number", c.MessageID)}
      [] OTHER -> {}

\* The keys written by direct assignment, AddFirstValid or AddInterface.
OtherKeys ==
    {"chat_id", "inline_message_id", "reply_markup", "entities",
     "allowed_updates", "shipping_query_id", "pre_checkout_query_id",
     "shipping_options", "message_ids", "menu_button"}

\* Whether an optional field holds the zero value of its kind.
IsUnset(f) ==
    CASE f.kind = "number" -> f.value = 0
      [] f.kind = "float" -> f.value.zero
      [] f.kind = "string" -> f.value = ""
      [] f.kind = "bool" -> ~f.value

\* The decimal string of the numbers a caller sets.
Decimal(n) ==
    CASE n = 7 -> "7"
      [] n = 42 -> "42"
      [] n = -1001 -> "-1001"

\* The string an optional field that is set must be written as.
Expected(f) ==
    CASE f.kind = "number" -> Decimal(f.value)
      [] f.kind = "float" -> f.value.text
      [] f.kind = "string" -> f.value
      [] f.kind = "bool" -> "true"

\* The first candidate that is not a zero value.
LeftMostValid(candidates) ==
    candidates[CHOOSE i \in 1..Len(candidates) :
                 /\ ~IsZero(candidates[i])
                 /\ \A j \in 1..(i - 1) : IsZero(candidates[j])]

-----------------------------------------------------------------------------
(* Claims C15 to C19 *)

\* C15: a descriptor that addresses its target through AddFirstValid and
\* whose candidates are all zero or empty returns the InvalidIdentifier
\* error from Params().
C15_InvalidIdentifierReturned ==
    (built # Nil /\ AddressedByFirstValid(config) /\ NoCandidate(config)) =>
      built.err = InvalidIdentifier

C17_FirstValidPriority ==
    (built # Nil /\ AddressedByFirstValid(config)) =>
      /\ NoCandidate(config) => "chat_id" \notin DOMAIN built.params
      /\ ~NoCandidate(config) =>
           /\ "chat_id" \in DOMAIN built.params
           /\ LET first == LeftMostValid(ChatIDCandidates(config))
              IN  built.params["chat_id"] =
                    IF first.type = "string" THEN first.value
                    ELSE Decimal(first.value)

C17_Witness ==
    /\ built # Nil
    /\ config.type = "UnbanChatMemberConfig"
    /\ config.ChatID = 0
    /\ config.SuperGroupUsername = "@supergroup"
    /\ config.ChannelUsername = "@name"
    /\ built.params["chat_id"] = "@supergroup"

\* C18: an optional field that is zero, empty or false adds no key, and one
\* that is set adds exactly its own key, holding the decimal string, the
\* string itself or the literal "true".
C18_ConditionalSetters ==
    built # Nil =>
      /\ \A f \in OptionalFields(config) :
           /\ IsUnset(f) => f.key \notin DOMAIN built.params
           /\ ~IsUnset(f) =>
                /\ f.key \in DOMAIN built.params
                /\ built.params[f.key] = Expected(f)
      /\ DOMAIN built.params \ OtherKeys =
           {f.key : f \in {g \in OptionalFields(config) : ~IsUnset(g)}}

C18_Witness ==
    /\ built # Nil
    /\ config.type = "MessageConfig"
    /\ config.Text = "hello"
    /\ config.ParseMode = ""
    /\ config.BaseChat.ReplyToMessageID = 7
    /\ ~config.BaseChat.ProtectContent
    /\ config.DisableWebPagePreview
    /\ built.err = Nil
    /\ built.params["text"] = "hello"
    /\ built.params["reply_to_message_id"] = "7"
    /\ built.params["disable_web_page_preview"] = "true"
    /\ "parse_mode" \notin DOMAIN built.params

\* C19: the parameters of a ShippingConfig and of a PreCheckoutConfig hold
\* the key ok, as "true" when OK is true and as "false" when it is false.
C19_MandatoryOk ==
    (built # Nil /\ config.type \in {"ShippingConfig", "PreCheckoutConfig"}) =>
      /\ "ok" \in DOMAIN built.params
      /\ built.params["ok"] = IF config.OK THEN "true" ELSE "false"

-----------------------------------------------------------------------------
(* Claim C20 *)

\* What newMedia of a call holds after n iterations when nothing but the call
\* itself touches it.
newMediaAlone(inputMedia, n) ==
    [i \in 1..Len(inputMedia) |->
       IF i <= n THEN prepareInputMediaForParams(inputMedia)[i] ELSE inputMedia[i]]

\* C20: whatever the other callers do and have done, what a call holds and
\* what it returns is what building the caller's own descriptor alone gives:
\* nothing of another request is read or written.
C20_RequestIndependence ==
    \A c \in Callers :
      /\ "Params" \in resultOf[c].returned =>
           resultOf[c].params = prepareInputMediaForParams(request[c])
      /\ "files" \in resultOf[c].returned =>
           resultOf[c].files = prepareInputMediaForFiles(request[c])
      /\ pc[c] = "prepareInputMediaForParams" =>
           /\ idxOf[c] <= Len(request[c])
           /\ newMediaOf[c] = newMediaAlone(request[c], idxOf[c])
      /\ pc[c] = "prepareInputMediaForFiles" =>
           /\ idxOf[c] <= Len(request[c])
           /\ filesOf[c] = filesUpTo(request[c], idxOf[c])

C20_Witness ==
    /\ resultOf[1].returned = {"Params", "files"}
    /\ Len(request[1]) = 2
    /\ Len(resultOf[1].files) = 4
    /\ resultOf[1].params # request[1]
    /\ pc[2] = "prepareInputMediaForFiles"
    /\ idxOf[2] = 1
    /\ request[2] # request[1]
    /\ Len(filesOf[2]) = 2

-----------------------------------------------------------------------------
(* Claims C21 and C22 *)

\* Whether every file of a list carries a file reference that needs upload.
AllPartsNeedUpload(parts) ==
    \A i \in 1..Len(parts) : NeedsUpload(parts[i].Data)

\* C21, as stated: every RequestFile returned by files() of any descriptor
\* carries a file reference whose NeedsUpload is true.
C21_EveryFileNeedsUpload ==
    "files" \in planned.built => AllPartsNeedUpload(planned.files)

\* C21, amended: every RequestFile returned by files() of a media descriptor
\* carries a file reference whose NeedsUpload is true; a PhotoConfig and a
\* WebhookConfig return the file references the caller gave them, whatever
\* their NeedsUpload.
C21_ResolverFilesNeedUpload ==
    "files" \in planned.built =>
      /\ fileable.type \in {"MediaGroupConfig", "EditMessageMediaConfig"} =>
           AllPartsNeedUpload(planned.files)
      /\ fileable.type = "PhotoConfig" =>
           /\ planned.files[1].Data = fileable.File
           /\ Len(planned.files) = IF fileable.Thumb = Nil THEN 1 ELSE 2
           /\ fileable.Thumb # Nil => planned.files[2].Data = fileable.Thumb
      /\ fileable.type = "WebhookConfig" =>
           /\ Len(planned.files) = IF fileable.Certificate = Nil THEN 0 ELSE 1
           /\ fileable.Certificate # Nil =>
                planned.files[1].Data = fileable.Certificate

C21_Witness ==
    /\ fileable.type = "MediaGroupConfig"
    /\ ~fedBack
    /\ Len(fileable.Media) = 2
    /\ fileable.Media[1].type = "InputMediaAudio"
    /\ fileable.Media[2].type = "InputMediaVideo"
    /\ "files" \in planned.built
    /\ Len(planned.files) = 2

\* Whether a call ends in the panic of an accessor that does not match
\* NeedsUpload.
CallPanics(v) ==
    CASE v.method = "NeedsUpload" -> FALSE
      [] v.method = "UploadData" -> UploadData(v.file, {}).panic
      [] v.method = "SendData" -> SendData(v.file).panic

\* C22: building the rewritten media and the list of files calls NeedsUpload
\* only on the caller's file references, so it cannot panic and opens no
\* file; a path is opened only by a later UploadData on a FilePath.
C22_PlanCallsNeedsUploadOnly ==
    /\ \A v \in invoked :
         v.by = "resolver" => v.method = "NeedsUpload" /\ ~CallPanics(v)
    /\ \A path \in opened :
         Call("UploadData", FilePath(path), "sender") \in invoked

C22_Witness ==
    /\ fileable.type = "MediaGroupConfig"
    /\ planned.built = {"Params", "files"}
    /\ Len(planned.files) = 3
    /\ Call("NeedsUpload", FilePath("/tmp/video.mp4"), "resolver") \in invoked
    /\ Call("NeedsUpload", FileBytes("thumb.jpg"), "resolver") \in invoked
    /\ opened = {}

-----------------------------------------------------------------------------
(* Claim C23 *)

\* C23: the parameters of a LocationConfig hold latitude and longitude for
\* every coordinate, a latitude or a longitude of 0 included.
C23_MandatoryCoordinates ==
    (built # Nil /\ config.type = "LocationConfig") =>
      /\ "latitude" \in DOMAIN built.params
      /\ built.params["latitude"] = config.Latitude.text
      /\ "longitude" \in DOMAIN built.params
      /\ built.params["longitude"] = config.Longitude.text

-----------------------------------------------------------------------------
(* Claims C24 to C26 *)

\* The file references of an input that need upload: <<position, field>>.
UploadPlaces(input) ==
    { <<i, "Media">> :
        i \in { k \in DOMAIN input : IsMedia(input[k]) /\ NeedsUpload(input[k].Media) } }
    \cup
    { <<i, "Thumb">> :
        i \in { k \in DOMAIN input : HasThumb(input[k]) /\ NeedsUpload(input[k].Thumb) } }

\* C24: there are as many RequestFiles as file references of the input that
\* need upload (the media of an item, the thumbnail of an item that has one),
\* and as many attach:// tokens in the rewritten sequence.
C24_FilesCountUploads ==
    /\ \A b \in DOMAIN filesOut :
         Len(filesOut[b]) = Cardinality(UploadPlaces(InputSeq))
    /\ \A a \in DOMAIN paramsOut :
         Cardinality(TokenPlaces(Rewritten(paramsOut[a])))
           = Cardinality(UploadPlaces(InputSeq))

C24_Witness ==
    /\ kind = "group"
    /\ Resolved
    /\ Len(Media) = 2
    /\ Cardinality(UploadPlaces(Media)) = 3
    /\ \E i \in DOMAIN Media : HasThumb(Media[i]) /\ ~NeedsUpload(Media[i].Thumb)

\* Whether a rewritten item derives from an input item: the same type and
\* metadata, each file reference the original or a token.
DerivesFrom(out, in) ==
    /\ out.type = in.type
    /\ out.Caption = in.Caption
    /\ out.Media = in.Media \/ IsToken(out.Media)
    /\ in.type \in ThumbTypes => out.Thumb = in.Thumb \/ IsToken(out.Thumb)

\* C25: the rewritten sequence of a media group has the length and the order
\* of the input; an element that is none of the four media types is copied
\* unchanged at its position and gives no RequestFile; an empty input gives
\* an empty rewritten sequence and an empty list of files.
C25_SameLengthAndOrder ==
    kind = "group" =>
      /\ \A a \in DOMAIN paramsOut :
           /\ Len(paramsOut[a]) = Len(Media)
           /\ \A i \in DOMAIN Media :
                IF IsMedia(Media[i])
                THEN DerivesFrom(paramsOut[a][i], Media[i])
                ELSE paramsOut[a][i] = Media[i]
      /\ \A b \in DOMAIN filesOut :
           /\ \A j \in DOMAIN filesOut[b] :
                \E i \in DOMAIN Media :
                  /\ IsMedia(Media[i])
                  /\ \/ filesOut[b][j].Data = Media[i].Media
                     \/ HasThumb(Media[i]) /\ filesOut[b][j].Data = Media[i].Thumb
           /\ Media = <<>> => filesOut[b] = <<>>

C25_Witness ==
    /\ kind = "group"
    /\ Resolved
    /\ Len(Media) = 2
    /\ Media[1] = OtherValue
    /\ IsMedia(Media[2]) /\ NeedsUpload(Media[2].Media)
    /\ paramsOut[1][1] = OtherValue
    /\ Len(filesOut[1]) = 1

\* The index of the item a part derives from, read from its name.
ItemOfPart(part) ==
    CHOOSE i \in 0..MaxLen : part.Name = "file-" \o ToString(i)

\* C26: the list of files is in ascending order of item index, and of the
\* two parts of one item the media comes before the thumbnail.
C26_FilesInItemOrder ==
    \A b \in DOMAIN filesOut :
      \A j, k \in DOMAIN filesOut[b] :
        j < k =>
          /\ ItemOfPart(filesOut[b][j]) <= ItemOfPart(filesOut[b][k])
          /\ ItemOfPart(filesOut[b][j]) = ItemOfPart(filesOut[b][k]) =>
               /\ filesOut[b][j].Data = InputSeq[ItemOfPart(filesOut[b][j]) + 1].Media
               /\ filesOut[b][k].Data = InputSeq[ItemOfPart(filesOut[b][k]) + 1].Thumb

C26_Witness ==
    /\ kind = "group"
    /\ filesOut # <<>>
    /\ Len(Media) = 2
    /\ Len(filesOut[1]) = 3
    /\ HasThumb(Media[1]) /\ NeedsUpload(Media[1].Thumb)
    /\ filesOut[1][2].Data = Media[1].Thumb
    /\ filesOut[1][3].Data = Media[2].Media

-----------------------------------------------------------------------------
(* Claim C27 *)

\* C27: a media group whose Media is an earlier rewritten sequence gets that
\* sequence back unchanged from the resolver, and an empty list of files.
C27_RewritingIsFixpoint ==
    fedBack =>
      /\ "Params" \in planned.built => planned.media = fileable.Media
      /\ "files" \in planned.built => planned.files = <<>>

C27_Witness ==
    /\ fedBack
    /\ planned.built = {"Params", "files"}
    /\ Len(fileable.Media) = 2
    /\ fileable.Media[1].type = "InputMediaVideo"
    /\ fileable.Media[1].Media = fileAttach("attach://file-0")
    /\ fileable.Media[1].Thumb = fileAttach("attach://file-0-thumb")
    /\ fileable.Media[2].type = "InputMediaPhoto"
    /\ fileable.Media[2].Media = fileAttach("attach://file-1")

-----------------------------------------------------------------------------
(* Claims C28 and C29 *)

\* C28: a BaseEdit, a SetGameScoreConfig or a GetGameHighScoresConfig with an
\* InlineMessageID that is not empty has inline_message_id in its parameters
\* and neither chat_id nor message_id, whatever its other fields hold; with an
\* empty one it has no inline_message_id.
C28_EditAddressingExclusive ==
    (built # Nil
       /\ config.type \in {"BaseEdit", "SetGameScoreConfig", "GetGameHighScoresConfig"}) =>
      IF config.InlineMessageID # ""
      THEN /\ "inline_message_id" \in DOMAIN built.params
           /\ built.params["inline_message_id"] = config.InlineMessageID
           /\ "chat_id" \notin DOMAIN built.params
           /\ "message_id" \notin DOMAIN built.params
      ELSE "inline_message_id" \notin DOMAIN built.params

C28_Witness ==
    /\ built # Nil
    /\ config.type = "BaseEdit"
    /\ config.InlineMessageID = "inline-1"
    /\ config.ChatID = 42
    /\ config.ChannelUsername = "@name"
    /\ config.MessageID = 7
    /\ "inline_message_id" \in DOMAIN built.params

\* The keys the score is written under, by the wire name and by the code.
ScoreLikeKeys == {"score", "scrore"}

\* C29: a SetGameScoreConfig with a Score that is not 0 has its decimal string
\* under the key score, and no other key for the score.
C29_ScoreKey ==
    (built # Nil /\ config.type = "SetGameScoreConfig" /\ config.Score # 0) =>
      /\ "score" \in DOMAIN built.params
      /\ built.params["score"] = Decimal(config.Score)
      /\ DOMAIN built.params \cap ScoreLikeKeys = {"score"}

====
